---- MODULE Spec2Model ----
(***************************************************************************)
(* Supply-chain management web application: session handling, the         *)
(* authentication decorators, the auth blueprint, the order routes, the   *)
(* checkout route and the in-memory rate-limit / cache decorators.        *)
(*                                                                         *)
(* Time in the session part is counted in half hours (one unit = 30       *)
(* minutes), so timedelta(hours=8) is 16 and timedelta(minutes=30) is 1.  *)
(***************************************************************************)
EXTENDS Integers, Sequences, FiniteSets, TLC

VARIABLES
    session,    \* the flask session of the one browser that is modelled
    now,        \* datetime.now(), in half hours
    lifetime,   \* app.config['PERMANENT_SESSION_LIFETIME'], in half hours
    resp,       \* what the last request did: endpoint, response, handler run or not
    loggedOut,  \* history: a logout happened and no login succeeded since
    orders,     \* order_table: order_id -> customer_id, status
    cart,       \* cart: customer_id -> number of items
    asked,      \* what the last request to an order route carried
    disclosed,  \* the order rows the last response showed
    calls,      \* the stored-procedure calls the last request made
    audit,      \* the audit_log rows the last request wrote
    clock,             \* time.time(), in seconds
    rate_limit_store,  \* g.rate_limit_store of the application context in use
    reached,           \* history: per key, when the wrapped handler ran
    cache_store,       \* g.cache_store of the application context in use
    remembered,        \* history: per key, the last result a call stored
    last,              \* the last call of the cached function
    stale,      \* history: last_activity was once over 8 hours old, no login since
    walked,     \* per order, the statuses it went through along ORDER_STATUS_FLOW
    pooled,     \* connections waiting in the pool
    held,       \* connections a with-block holds, still connected
    dead,       \* connections a with-block holds, no longer connected
    lost        \* connections no with-block holds and the pool did not get back

authVars == <<session, now, lifetime, resp, loggedOut, stale>>

orderVars == <<orders, cart, asked, disclosed, calls, audit>>

procVars == <<clock, rate_limit_store, reached, cache_store, remembered, last>>

restVars == <<walked, pooled, held, dead, lost>>

vars == <<authVars, orderVars, procVars, restVars>>

\* ---------------------------------------------------------------- bounds
MaxTime == 18

\* clock steps between two requests: 4 h and 4.5 h
TickSteps == {8, 9}

\* ------------------------------------------------------------ constants
\* timedelta(hours=8) hard-coded in before_request
BEFORE_REQUEST_TIMEOUT == 16

\* PERMANENT_SESSION_LIFETIME of Config, ProductionConfig, TestingConfig
LIFETIME_CONFIG == 16
LIFETIME_PRODUCTION == 8
LIFETIME_TESTING == 1

ConfigLifetimes == {LIFETIME_CONFIG, LIFETIME_PRODUCTION, LIFETIME_TESTING}

None == "None"
NoId == 0

\* ------------------------------------------------------- session as dict
EmptySession == [k \in {} |-> TRUE]

Has(s, k) == k \in DOMAIN s

Put(s, k, v) == [x \in (DOMAIN s) \cup {k} |-> IF x = k THEN v ELSE s[x]]

Pop(s, k) == [x \in (DOMAIN s) \ {k} |-> s[x]]

\* flask.flash stores the pending messages in the session under '_flashes';
\* the model keeps only that messages are pending
flash(s, category) == Put(s, "_flashes", TRUE)

\* a rendered template may show the pending messages, which removes them
Rendered(s, shown) == IF shown THEN Pop(s, "_flashes") ELSE s

\* the keys a login writes
UserKeys == {"user_name", "user_role", "full_name", "customer_id",
             "store_name", "manager_id"}

\* session.get(key)
Get(s, k) == IF Has(s, k) THEN s[k] ELSE None

\* --------------------------------------------------------- the database
\* users table: user_name -> role
Users == [cust1 |-> "customer", cust2 |-> "customer", sm1 |-> "store_manager",
          mm1 |-> "main_manager", orphan |-> "customer", drv1 |-> "driver"]

\* customers / store_manager / main_manager tables, by user_name
Customers == [cust1 |-> [customer_id |-> 1, full_name |-> "Cust One"],
              cust2 |-> [customer_id |-> 2, full_name |-> "Cust Two"]]

StoreManagers == [sm1 |-> [manager_id |-> 1, store_name |-> "S1",
                           full_name |-> "Store Mgr"]]

MainManagers == [mm1 |-> [manager_id |-> 2, full_name |-> "Main Mgr"]]

\* what a login form can carry as user name
UserInputs == {"", "cust1", "sm1", "mm1", "orphan", "drv1", "nobody"}

NoUser == [found |-> FALSE, role |-> None]

\* User.authenticate: sp_authenticate_user must answer 'Success' and the
\* users row must exist; every exception is caught and gives None
authenticate(user_name, procStatus) ==
    IF procStatus = "Success" /\ user_name \in DOMAIN Users
    THEN [found |-> TRUE, role |-> Users[user_name]]
    ELSE NoUser

NoDetails == [found |-> FALSE, full_name |-> None, customer_id |-> NoId,
              store_name |-> None, manager_id |-> NoId]

\* a details lookup that answers with an empty record instead of None
_get_user_details_never_none(user_name, role, dbOk) ==
    [found |-> TRUE, full_name |-> None, customer_id |-> NoId,
     store_name |-> None, manager_id |-> NoId]

\* _get_user_details: the record of the role's table, None when the row is
\* missing, the role is unknown or the query raises
_get_user_details(user_name, role, dbOk) ==
    IF ~dbOk THEN NoDetails
    ELSE IF role = "customer" /\ user_name \in DOMAIN Customers
    THEN [found |-> TRUE, full_name |-> Customers[user_name].full_name,
          customer_id |-> Customers[user_name].customer_id,
          store_name |-> None, manager_id |-> NoId]
    ELSE IF role = "store_manager" /\ user_name \in DOMAIN StoreManagers
    THEN [found |-> TRUE, full_name |-> StoreManagers[user_name].full_name,
          customer_id |-> NoId,
          store_name |-> StoreManagers[user_name].store_name,
          manager_id |-> StoreManagers[user_name].manager_id]
    ELSE IF role = "main_manager" /\ user_name \in DOMAIN MainManagers
    THEN [found |-> TRUE, full_name |-> MainManagers[user_name].full_name,
          customer_id |-> NoId, store_name |-> None,
          manager_id |-> MainManagers[user_name].manager_id]
    ELSE NoDetails

\* create_user_session: seven keys and session.permanent = True
create_user_session(s, user_name, role, details, t) ==
    [x \in (DOMAIN s) \cup UserKeys \cup {"last_activity", "_permanent"} |->
        CASE x = "user_name" -> user_name
          [] x = "user_role" -> role
          [] x = "full_name" -> details.full_name
          [] x = "customer_id" -> details.customer_id
          [] x = "store_name" -> details.store_name
          [] x = "manager_id" -> details.manager_id
          [] x = "last_activity" -> t
          [] x = "_permanent" -> TRUE
          [] OTHER -> s[x]]

\* a logout that forgets the user but keeps the rest of the session
clear_user_session_keys_only(s) == [x \in (DOMAIN s) \ UserKeys |-> s[x]]

\* clear_user_session
clear_user_session(s) == EmptySession

\* ------------------------------------------------------------ decorators
\* _is_session_valid: last_activity present and not older than the
\* configured PERMANENT_SESSION_LIFETIME
_is_session_valid(s, t, lt) ==
    IF ~Has(s, "last_activity") THEN FALSE
    ELSE IF t - s["last_activity"] > lt THEN FALSE
    ELSE TRUE

Pass(s) == [s |-> s, out |-> "pass", by |-> "handler"]

\* login_required
login_required(s, t, lt, url) ==
    IF ~Has(s, "user_name")
    THEN [s |-> Put(flash(s, "warning"), "next_url", url),
          out |-> "auth.login", by |-> "login_required"]
    ELSE IF ~_is_session_valid(s, t, lt)
    THEN [s |-> flash(EmptySession, "warning"),
          out |-> "auth.login", by |-> "login_required"]
    ELSE Pass(s)

\* a role check that lets the main manager into every role's pages
role_required_main_everywhere(s, allowed_roles) ==
    IF ~Has(s, "user_name")
    THEN [s |-> flash(s, "warning"), out |-> "auth.login", by |-> "role_required"]
    ELSE IF Get(s, "user_role") \notin allowed_roles \cup {"main_manager"}
    THEN [s |-> flash(s, "error"), out |-> "index", by |-> "role_required"]
    ELSE Pass(s)

\* role_required(*allowed_roles)
role_required(s, allowed_roles) ==
    IF ~Has(s, "user_name")
    THEN [s |-> flash(s, "warning"), out |-> "auth.login", by |-> "role_required"]
    ELSE IF Get(s, "user_role") \notin allowed_roles
    THEN [s |-> flash(s, "error"), out |-> "index", by |-> "role_required"]
    ELSE Pass(s)

\* @login_required @role_required(...) stacked, login_required outermost
Stacked(s, t, lt, url, allowed_roles) ==
    LET a == login_required(s, t, lt, url)
    IN  IF a.out # "pass" THEN a ELSE role_required(a.s, allowed_roles)

customer_required(s, t, lt, url) == Stacked(s, t, lt, url, {"customer"})

manager_required(s, t, lt, url) ==
    Stacked(s, t, lt, url, {"store_manager", "main_manager"})

store_manager_required(s, t, lt, url) == Stacked(s, t, lt, url, {"store_manager"})

main_manager_required(s, t, lt, url) == Stacked(s, t, lt, url, {"main_manager"})

Decorators == {"login_required", "customer_required", "manager_required",
               "store_manager_required", "main_manager_required"}

Decorate(dec, s, t, lt, url) ==
    CASE dec = "login_required" -> login_required(s, t, lt, url)
      [] dec = "customer_required" -> customer_required(s, t, lt, url)
      [] dec = "manager_required" -> manager_required(s, t, lt, url)
      [] dec = "store_manager_required" -> store_manager_required(s, t, lt, url)
      [] dec = "main_manager_required" -> main_manager_required(s, t, lt, url)

\* the roles each decorator lets through (login_required checks no role)
Roles == {"customer", "store_manager", "main_manager"}

\* ------------------------------------------------------------ rate limit
\* flask.g belongs to the application context, which is pushed anew for
\* every request: each request starts without g.rate_limit_store
NewStore == [k \in {} |-> <<>>]

\* _get_rate_limit_key
_get_rate_limit_key(s, remote_addr) ==
    IF Has(s, "user_name") THEN <<"user", s["user_name"]>> ELSE <<"ip", remote_addr>>

KeepAfter(stamps, window_start) ==
    SelectSeq(stamps, LAMBDA ts : ts > window_start)

\* _is_rate_limited on the store found in g; the answer and the store left
_is_rate_limited(store, key, t, max_requests, per_seconds) ==
    LET window_start == t - per_seconds
        kept == IF key \in DOMAIN store THEN KeepAfter(store[key], window_start)
                ELSE <<>>
        cleaned == [k \in (DOMAIN store) \cup {key} |->
                        IF k = key THEN kept ELSE store[k]]
    IN  IF Len(kept) >= max_requests
        THEN [limited |-> TRUE, store |-> cleaned]
        ELSE [limited |-> FALSE,
              store |-> [cleaned EXCEPT ![key] = Append(kept, t)]]

\* the store _is_rate_limited finds when a request reaches the decorator: g
\* belongs to the application context, and every request gets a new one
StoreOfRequest(previous) == NewStore

\* no entry of g.cache_store
NoEntry == [value |-> None, expires |-> 0]

\* no call of the cached function yet
NoCall == [key |-> <<>>, at |-> 0, executed |-> FALSE, returned |-> None,
           expected |-> NoEntry]

\* the stores of g as the session and order parts find them: never used
ProcIdle ==
    /\ clock = 0
    /\ rate_limit_store = NewStore
    /\ reached = NewStore
    /\ cache_store = NewStore
    /\ remembered = NewStore
    /\ last = NoCall

\* pool_size of _create_pool
POOL_SIZE == 10

\* the status walks and the connection pool as the other parts find them
RestIdle ==
    /\ walked = <<>>
    /\ pooled = POOL_SIZE
    /\ held = 0
    /\ dead = 0
    /\ lost = 0

\* ------------------------------------------------------------ app.py
\* endpoints before_request leaves alone
PublicEndpoints == {"static", "health_check", "about", "contact", "index"}

AuthEndpoints == {"auth.login", "auth.logout", "auth.api_login", "auth.api_logout",
                  "auth.api_session", "auth.check_session", "auth.extend_session"}

\* one protected route per decorator
Routes == [profile |-> "login_required"] @@
          ("customer.cart" :> "customer_required") @@
          ("manager.inventory" :> "manager_required") @@
          ("manager.store_dashboard" :> "store_manager_required") @@
          ("manager.main_dashboard" :> "main_manager_required")

\* a timeout test that already fires at exactly eight hours
before_request_at_limit(endpoint, s, t) ==
    IF endpoint \in PublicEndpoints THEN [s |-> s, stop |-> FALSE]
    ELSE IF endpoint \in AuthEndpoints THEN [s |-> s, stop |-> FALSE]
    ELSE IF Has(s, "user_name")
    THEN IF Has(s, "last_activity") /\ t - s["last_activity"] >= BEFORE_REQUEST_TIMEOUT
         THEN [s |-> flash(EmptySession, "warning"), stop |-> TRUE]
         ELSE [s |-> Put(s, "last_activity", t), stop |-> FALSE]
    ELSE [s |-> s, stop |-> FALSE]

\* before_request: stop = TRUE when it answers the request itself
before_request(endpoint, s, t) ==
    IF endpoint \in PublicEndpoints THEN [s |-> s, stop |-> FALSE]
    ELSE IF endpoint \in AuthEndpoints THEN [s |-> s, stop |-> FALSE]
    ELSE IF Has(s, "user_name")
    THEN IF Has(s, "last_activity") /\ t - s["last_activity"] > BEFORE_REQUEST_TIMEOUT
         THEN [s |-> flash(EmptySession, "warning"), stop |-> TRUE]
         ELSE [s |-> Put(s, "last_activity", t), stop |-> FALSE]
    ELSE [s |-> s, stop |-> FALSE]

\* ep: the endpoint asked for; by: who answered; kind/target: the response;
\* ran: the route's body was executed; outcome: the branch the body took
Response(ep, by, kind, target, ran, outcome) ==
    [ep |-> ep, by |-> by, kind |-> kind, target |-> target, ran |-> ran,
     outcome |-> outcome]

\* no request answered yet
NoResponse == Response("none", "none", "none", "none", FALSE, "none")

\* what stands between a request and the body of a protected route:
\* before_request, then the route's decorator
Gate(ep, dec, s, t, lt) ==
    LET br == before_request(ep, s, t)
    IN  IF br.stop
        THEN [s |-> br.s, out |-> "auth.login", by |-> "before_request"]
        ELSE Decorate(dec, br.s, t, lt, ep)

\* the answer of a request the gate stopped
Stopped(ep, g) ==
    /\ session' = g.s
    /\ resp' = Response(ep, g.by, "redirect", g.out, FALSE,
                        IF g.by = "before_request" THEN "expired" ELSE "rejected")

\* a request to a protected route: before_request, the decorator, the body
Request(ep, shown) ==
    LET g == Gate(ep, Routes[ep], session, now, lifetime)
    IN  /\ IF g.out # "pass"
           THEN Stopped(ep, g)
           ELSE /\ session' = Rendered(g.s, shown)
                /\ resp' = Response(ep, "handler", "page", ep, TRUE, "ok")
        /\ UNCHANGED <<now, lifetime, loggedOut, stale, orderVars, procVars, restVars>>

\* index: redirect by role when logged in, else the public home page
index(shown) ==
    /\ IF Has(session, "user_name") /\ Get(session, "user_role") \in Roles
       THEN /\ session' = session
            /\ resp' = Response("index", "handler", "redirect", "dashboard", TRUE, "ok")
       ELSE /\ session' = Rendered(session, shown)
            /\ resp' = Response("index", "handler", "page", "index", TRUE, "ok")
    /\ UNCHANGED <<now, lifetime, loggedOut, stale, orderVars, procVars, restVars>>

\* time passes between two requests
Tick(d) ==
    /\ now + d <= MaxTime
    /\ now' = now + d
    /\ stale' = (\/ stale
                 \/ /\ Has(session, "user_name")
                    /\ Has(session, "last_activity")
                    /\ now' - session["last_activity"] > BEFORE_REQUEST_TIMEOUT)
    /\ UNCHANGED <<session, lifetime, resp, loggedOut, orderVars, procVars, restVars>>

\* ------------------------------------------------------------ routes/auth.py
LOGIN_MAX_REQUESTS == 10
LOGIN_PER_SECONDS == 300

\* now counts half hours, time.time() counts seconds
SecondsPerUnit == 30 * 60

\* what the form or the JSON body carries: the name and whether it comes
\* wrapped in characters sanitize_input removes (<, >, quotes, ;, blanks)
RawNames == [text : UserInputs, wrapped : BOOLEAN]

\* sanitize_input: the removable characters and the surrounding blanks go
sanitize_input(raw) == raw.text

ProcStatuses == {"Success", "Failure", "Error"}

\* the rate_limit(max_requests=10, per_seconds=300) wrapper of login / api_login
LoginLimited(s) ==
    _is_rate_limited(StoreOfRequest(NewStore), _get_rate_limit_key(s, "ip1"),
                     now * SecondsPerUnit, LOGIN_MAX_REQUESTS, LOGIN_PER_SECONDS).limited

Limited(ep) ==
    /\ session' = flash(session, "warning")
    /\ resp' = Response(ep, "rate_limit", "redirect", "index", FALSE, "limited")

\* GET /auth/login
login_get(shown) ==
    /\ IF LoginLimited(session) THEN Limited("auth.login")
       ELSE IF Has(session, "user_name")
       THEN /\ session' = session
            /\ resp' = Response("auth.login", "handler", "redirect", "dashboard",
                                TRUE, "already")
       ELSE /\ session' = Rendered(session, shown)
            /\ resp' = Response("auth.login", "handler", "page", "auth/login.html",
                                TRUE, "form")
    /\ UNCHANGED <<now, lifetime, loggedOut, stale, orderVars, procVars, restVars>>

\* POST /auth/login
login(raw, passwordGiven, procStatus, dbOk, shown) ==
    LET user_name == sanitize_input(raw)
        auth_result == authenticate(user_name, procStatus)
        user_details == _get_user_details(user_name, auth_result.role, dbOk)
        created == create_user_session(session, user_name, auth_result.role,
                                       user_details, now)
        page(outcome) ==
            /\ session' = Rendered(flash(session, "error"), shown)
            /\ resp' = Response("auth.login", "handler", "page", "auth/login.html",
                                TRUE, outcome)
    IN  /\ IF LoginLimited(session) THEN Limited("auth.login")
           ELSE IF user_name = "" \/ ~passwordGiven THEN page("missing")
           ELSE IF ~auth_result.found THEN page("invalid")
           ELSE IF ~user_details.found THEN page("no_details")
           ELSE /\ session' = Pop(flash(created, "success"), "next_url")
                /\ resp' = Response("auth.login", "handler", "redirect",
                                    IF Has(session, "next_url")
                                    THEN session["next_url"] ELSE "dashboard",
                                    TRUE, "logged_in")
        /\ loggedOut' = IF resp'.outcome = "logged_in" THEN FALSE ELSE loggedOut
        /\ stale' = IF resp'.outcome = "logged_in" THEN FALSE ELSE stale
        /\ UNCHANGED <<now, lifetime, orderVars, procVars, restVars>>

JsonBodies == {"none", "no_password", "bad_type", "ok"}

\* POST /auth/api/login
api_login(body, raw, procStatus, dbOk) ==
    LET user_name == sanitize_input(raw)
        auth_result == authenticate(user_name, procStatus)
        user_details == _get_user_details(user_name, auth_result.role, dbOk)
        json(status, outcome) ==
            /\ session' = session
            /\ resp' = Response("auth.api_login", "handler", "json", status,
                                TRUE, outcome)
    IN  /\ IF LoginLimited(session)
           THEN /\ session' = session
                /\ resp' = Response("auth.api_login", "rate_limit", "json", "429",
                                    FALSE, "limited")
           ELSE IF body \in {"none", "no_password"} THEN json("400", "missing")
           ELSE IF body = "bad_type" THEN json("500", "exception")
           ELSE IF auth_result.found /\ user_details.found
           THEN /\ session' = create_user_session(session, user_name,
                                                  auth_result.role, user_details, now)
                /\ resp' = Response("auth.api_login", "handler", "json", "200",
                                    TRUE, "logged_in")
           ELSE json("401", "invalid")
        /\ loggedOut' = IF resp'.outcome = "logged_in" THEN FALSE ELSE loggedOut
        /\ stale' = IF resp'.outcome = "logged_in" THEN FALSE ELSE stale
        /\ UNCHANGED <<now, lifetime, orderVars, procVars, restVars>>

\* GET /auth/logout
logout ==
    /\ session' = IF Has(session, "user_name")
                  THEN flash(clear_user_session(session), "info")
                  ELSE clear_user_session(session)
    /\ resp' = Response("auth.logout", "handler", "redirect", "index", TRUE, "logged_out")
    /\ loggedOut' = TRUE
    /\ UNCHANGED <<now, lifetime, stale, orderVars, procVars, restVars>>

\* POST /auth/api/logout
api_logout ==
    /\ session' = clear_user_session(session)
    /\ resp' = Response("auth.api_logout", "handler", "json", "200", TRUE, "logged_out")
    /\ loggedOut' = TRUE
    /\ UNCHANGED <<now, lifetime, stale, orderVars, procVars, restVars>>

\* GET /auth/api/session and GET /auth/check-session only read the session
api_session ==
    /\ resp' = Response("auth.api_session", "handler", "json", "200", TRUE,
                        IF Has(session, "user_name") THEN "logged_in" ELSE "anonymous")
    /\ UNCHANGED <<session, now, lifetime, loggedOut, stale, orderVars, procVars, restVars>>

check_session ==
    /\ resp' = Response("auth.check_session", "handler", "json", "200", TRUE,
                        IF Has(session, "user_name") THEN "valid" ELSE "invalid")
    /\ UNCHANGED <<session, now, lifetime, loggedOut, stale, orderVars, procVars, restVars>>

\* POST /auth/extend-session
extend_session ==
    /\ IF Has(session, "user_name")
       THEN /\ session' = Put(session, "last_activity", now)
            /\ resp' = Response("auth.extend_session", "handler", "json", "200",
                                TRUE, "extended")
       ELSE /\ session' = session
            /\ resp' = Response("auth.extend_session", "handler", "json", "401",
                                TRUE, "no_session")
    /\ UNCHANGED <<now, lifetime, loggedOut, stale, orderVars, procVars, restVars>>

\* ------------------------------------------------------------ order routes
MaxOrders == 3
MaxCart == 1
MaxDayOffset == 8

\* the flow with returned orders going back to pending
ORDER_STATUS_FLOW_returned_reopens ==
    [pending |-> {"confirmed", "cancelled"},
     confirmed |-> {"assigned_train", "cancelled"},
     assigned_train |-> {"in_transit_rail", "cancelled"},
     in_transit_rail |-> {"at_warehouse", "cancelled"},
     at_warehouse |-> {"assigned_truck", "cancelled"},
     assigned_truck |-> {"out_for_delivery", "cancelled"},
     out_for_delivery |-> {"delivered", "returned"},
     delivered |-> {},
     cancelled |-> {},
     returned |-> {"pending"}]

\* ORDER_STATUS_FLOW of BusinessRules
ORDER_STATUS_FLOW ==
    [pending |-> {"confirmed", "cancelled"},
     confirmed |-> {"assigned_train", "cancelled"},
     assigned_train |-> {"in_transit_rail", "cancelled"},
     in_transit_rail |-> {"at_warehouse", "cancelled"},
     at_warehouse |-> {"assigned_truck", "cancelled"},
     assigned_truck |-> {"out_for_delivery", "cancelled"},
     out_for_delivery |-> {"delivered", "returned"},
     delivered |-> {},
     cancelled |-> {},
     returned |-> {}]

Statuses == DOMAIN ORDER_STATUS_FLOW

NoRequest == [kind |-> "none"]

\* the order tables as the session part finds them: never read, never written
OrdersIdle ==
    /\ orders = <<>>
    /\ cart = <<>>
    /\ asked = NoRequest
    /\ disclosed = {}
    /\ calls = {}
    /\ audit = {}

CustomerIds == {Customers[u].customer_id : u \in DOMAIN Customers}

\* is_customer
is_customer(s) == Get(s, "user_role") = "customer"

Row(order_id) ==
    [order_id |-> order_id, customer_id |-> orders[order_id].customer_id,
     status |-> orders[order_id].status]

\* SELECT ... WHERE order_id = %s AND customer_id = %s (fetch_one): the rows found
OwnOrder(order_id, customer_id) ==
    IF order_id \in DOMAIN orders /\ orders[order_id].customer_id = customer_id
    THEN {Row(order_id)} ELSE {}

\* SELECT ... WHERE order_id = %s (fetch_one)
AnyOrder(order_id) ==
    IF order_id \in DOMAIN orders THEN {Row(order_id)} ELSE {}

\* the same lookup with the customer's condition left out
VisibleOrder_unfiltered(s, order_id) == AnyOrder(order_id)

\* the lookup track_order, order_status, cancel_order and api_get_order share:
\* a customer's query carries the session's customer_id, a manager's does not
VisibleOrder(s, order_id) ==
    IF is_customer(s) THEN OwnOrder(order_id, s["customer_id"])
    ELSE AnyOrder(order_id)

OrderRequest(order_id) == [kind |-> "order", order_id |-> order_id]

\* nothing but the session and the response changes
ReadOnly(shownRows) ==
    /\ disclosed' = shownRows
    /\ calls' = {}
    /\ audit' = {}
    /\ UNCHANGED <<orders, cart, now, lifetime, loggedOut, stale, procVars, restVars>>

\* track_order: GET /orders/track/<order_id>, login_required
track_order(order_id, dbOk) ==
    LET ep == "orders.track_order"
        g == Gate(ep, "login_required", session, now, lifetime)
        found == VisibleOrder(g.s, order_id)
        back == IF is_customer(g.s) THEN "customer.orders"
                ELSE "manager.orders_management"
    IN  /\ asked' = OrderRequest(order_id)
        /\ IF g.out # "pass" THEN Stopped(ep, g) /\ ReadOnly({})
           ELSE IF ~dbOk
           THEN /\ session' = flash(g.s, "error")
                /\ resp' = Response(ep, "handler", "redirect", back, TRUE, "error")
                /\ ReadOnly({})
           ELSE IF found = {}
           THEN /\ session' = flash(g.s, "error")
                /\ resp' = Response(ep, "handler", "redirect", back, TRUE, "not_found")
                /\ ReadOnly({})
           ELSE /\ session' = Rendered(g.s, TRUE)
                /\ resp' = Response(ep, "handler", "page", "orders/track_order.html",
                                    TRUE, "shown")
                /\ ReadOnly(found)

\* order_status: GET /orders/status/<order_id>, login_required, JSON
order_status(order_id, dbOk) ==
    LET ep == "orders.order_status"
        g == Gate(ep, "login_required", session, now, lifetime)
        found == VisibleOrder(g.s, order_id)
    IN  /\ asked' = OrderRequest(order_id)
        /\ IF g.out # "pass" THEN Stopped(ep, g) /\ ReadOnly({})
           ELSE /\ session' = g.s
                /\ IF ~dbOk
                   THEN /\ resp' = Response(ep, "handler", "json", "500", TRUE, "error")
                        /\ ReadOnly({})
                   ELSE IF found = {}
                   THEN /\ resp' = Response(ep, "handler", "json", "404", TRUE, "not_found")
                        /\ ReadOnly({})
                   ELSE /\ resp' = Response(ep, "handler", "json", "200", TRUE, "shown")
                        /\ ReadOnly(found)

\* api_response around a handler result: a dict is wrapped into the standard
\* success body, a (dict, status) tuple is handed on as it is
api_response(result) ==
    IF result.type = "dict" THEN [kind |-> "api_success", status |-> "200"]
    ELSE IF result.type = "raised" THEN [kind |-> "api_error", status |-> "500"]
    ELSE [kind |-> "json", status |-> result.status]

\* api_get_order: GET /orders/api/order/<order_id>, login_required, api_response
api_get_order(order_id, dbOk) ==
    LET ep == "orders.api_get_order"
        g == Gate(ep, "login_required", session, now, lifetime)
        found == VisibleOrder(g.s, order_id)
        result == IF ~dbOk THEN [type |-> "tuple", status |-> "500"]
                  ELSE IF found = {} THEN [type |-> "tuple", status |-> "404"]
                  ELSE [type |-> "dict", status |-> "200"]
        out == api_response(result)
    IN  /\ asked' = OrderRequest(order_id)
        /\ IF g.out # "pass" THEN Stopped(ep, g) /\ ReadOnly({})
           ELSE /\ session' = g.s
                /\ resp' = Response(ep, "handler", out.kind, out.status, TRUE,
                                    IF ~dbOk THEN "error"
                                    ELSE IF found = {} THEN "not_found" ELSE "shown")
                /\ ReadOnly(IF dbOk THEN found ELSE {})

\* the rows api_get_orders selects: the customer's own or all, of one status
\* when the request names one
ListedOrders(s, status) ==
    {Row(id) : id \in {i \in DOMAIN orders :
        /\ is_customer(s) => orders[i].customer_id = s["customer_id"]
        /\ status # "" => orders[i].status = status}}

ListRequest(pageOk, status) == [kind |-> "list", pageOk |-> pageOk, status |-> status]

\* api_get_orders: GET /orders/api/orders, login_required, api_response;
\* pageOk is whether int() takes the page and per_page arguments
api_get_orders(pageOk, status, dbOk) ==
    LET ep == "orders.api_get_orders"
        g == Gate(ep, "login_required", session, now, lifetime)
        failed == ~pageOk \/ ~dbOk
        result == IF failed THEN [type |-> "tuple", status |-> "500"]
                  ELSE [type |-> "dict", status |-> "200"]
        out == api_response(result)
    IN  /\ asked' = ListRequest(pageOk, status)
        /\ IF g.out # "pass" THEN Stopped(ep, g) /\ ReadOnly({})
           ELSE /\ session' = g.s
                /\ resp' = Response(ep, "handler", out.kind, out.status, TRUE,
                                    IF failed THEN "error" ELSE "shown")
                /\ ReadOnly(IF failed THEN {} ELSE ListedOrders(g.s, status))

\* order_detail: GET /customer/order/<order_id>, customer_required
order_detail(order_id, dbOk) ==
    LET ep == "customer.order_detail"
        g == Gate(ep, "customer_required", session, now, lifetime)
        found == OwnOrder(order_id, g.s["customer_id"])
    IN  /\ asked' = OrderRequest(order_id)
        /\ IF g.out # "pass" THEN Stopped(ep, g) /\ ReadOnly({})
           ELSE IF ~dbOk
           THEN /\ session' = flash(g.s, "error")
                /\ resp' = Response(ep, "handler", "redirect", "customer.orders",
                                    TRUE, "error")
                /\ ReadOnly({})
           ELSE IF found = {}
           THEN /\ session' = flash(g.s, "error")
                /\ resp' = Response(ep, "handler", "redirect", "customer.orders",
                                    TRUE, "not_found")
                /\ ReadOnly({})
           ELSE /\ session' = Rendered(g.s, TRUE)
                /\ resp' = Response(ep, "handler", "page", "customer/order_detail.html",
                                    TRUE, "shown")
                /\ ReadOnly(found)

\* the call sp_update_order_status(order_id, new_status, user_name); was and
\* owner record the row as the call found it
UpdateCall(order_id, new_status, user_name) ==
    [proc |-> "sp_update_order_status", order_id |-> order_id,
     new_status |-> new_status, user_name |-> user_name,
     was |-> IF order_id \in DOMAIN orders THEN orders[order_id].status ELSE None,
     owner |-> IF order_id \in DOMAIN orders THEN orders[order_id].customer_id
               ELSE NoId]

\* what sp_update_order_status leaves behind when it does not raise
sp_update_order_status(order_id, new_status) ==
    [orders EXCEPT ![order_id].status = new_status]

\* the row audit_log(action, resource) writes once the handler has returned
AuditRow(s, action) ==
    [user_name |-> Get(s, "user_name"), action |-> action, status |-> "SUCCESS"]

\* the refusal list cut down to delivered orders
TerminalStatuses_delivered_only == {"delivered"}

\* the statuses cancel_order refuses
TerminalStatuses == {"delivered", "cancelled", "returned"}

\* cancel_order: POST /orders/cancel/<order_id>, login_required, audit_log
cancel_order(order_id, dbOk, procOk) ==
    LET ep == "orders.cancel_order"
        g == Gate(ep, "login_required", session, now, lifetime)
        found == VisibleOrder(g.s, order_id)
        answer(outcome, category) ==
            /\ session' = flash(g.s, category)
            /\ resp' = Response(ep, "handler", "redirect", "customer.orders", TRUE, outcome)
    IN  /\ asked' = OrderRequest(order_id)
        /\ disclosed' = {}
        /\ UNCHANGED <<cart, now, lifetime, loggedOut, stale, procVars, restVars>>
        /\ IF g.out # "pass"
           THEN Stopped(ep, g) /\ calls' = {} /\ audit' = {} /\ orders' = orders
           ELSE /\ audit' = IF dbOk THEN {AuditRow(g.s, "CANCEL_ORDER")} ELSE {}
                /\ IF ~dbOk
                   THEN answer("error", "error") /\ calls' = {} /\ orders' = orders
                   ELSE IF found = {}
                   THEN answer("not_found", "error") /\ calls' = {} /\ orders' = orders
                   ELSE IF orders[order_id].status \in TerminalStatuses
                   THEN answer("cannot_cancel", "error") /\ calls' = {} /\ orders' = orders
                   ELSE /\ calls' = {UpdateCall(order_id, "cancelled", g.s["user_name"])}
                        /\ IF procOk
                           THEN /\ orders' = sp_update_order_status(order_id, "cancelled")
                                /\ answer("cancelled", "success")
                           ELSE /\ orders' = orders
                                /\ answer("error", "error")

\* ------------------------------------------------------------ checkout
\* days_ahead=7 in checkout
MIN_DELIVERY_DAYS == 7

\* now counts half hours
HalfHoursPerDay == 2 * 24

\* date.today(), as a day number
today(t) == t \div HalfHoursPerDay

\* the form fields: route_id is text that int() accepts or not, delivery_date
\* is empty, text strptime('%Y-%m-%d') refuses, or a date
RouteFields == {[kind |-> "bad", val |-> 0]} \cup
               {[kind |-> "int", val |-> v] : v \in -1 .. 1}

DateFields == {[kind |-> "empty", day |-> 0], [kind |-> "bad", day |-> 0]} \cup
              {[kind |-> "date", day |-> d] : d \in MIN_DELIVERY_DAYS - 1 .. MaxDayOffset}

\* is_future_date with the day itself refused
is_future_date_strictly_after(field, days_ahead, t) ==
    IF field.kind # "date" THEN FALSE
    ELSE LET min_date == today(t) + days_ahead
         IN  field.day > min_date

\* is_future_date(date_str, days_ahead): parse, then date >= today + days_ahead
is_future_date(field, days_ahead, t) ==
    IF field.kind # "date" THEN FALSE
    ELSE LET min_date == today(t) + days_ahead
         IN  field.day >= min_date

\* CartItem.get_cart_contents: the cart rows, [] when sp_get_cart_summary raises
get_cart_contents(customer_id, cartOk) ==
    IF cartOk THEN cart[customer_id] ELSE 0

CreateCall(customer_id, route_id, day, items) ==
    [proc |-> "sp_create_order_from_cart", customer_id |-> customer_id,
     route_id |-> route_id, day |-> day, items |-> items]

\* what sp_create_order_from_cart leaves behind when it does not raise: the
\* cart becomes a pending order
sp_create_order_from_cart(customer_id) ==
    [k \in (DOMAIN orders) \cup {Len(orders) + 1} |->
        IF k \in DOMAIN orders THEN orders[k]
        ELSE [customer_id |-> customer_id, status |-> "pending"]]

\* how Order.create_from_cart may end: the order made and read back, the
\* procedure raising, the order made but not read back
CreateOutcomes == {"done", "raised", "unread"}

CheckoutRequest(route, date) ==
    [kind |-> "checkout", route |-> route, date |-> date]

\* checkout: POST /customer/checkout, customer_required
checkout(route, date, cartOk, proc) ==
    LET ep == "customer.checkout"
        g == Gate(ep, "customer_required", session, now, lifetime)
        customer_id == g.s["customer_id"]
        cart_items == get_cart_contents(customer_id, cartOk)
        \* Order.create_from_cart: the procedure makes the order or raises, and
        \* an order made may still fail to be read back, which also gives None
        made == proc # "raised" /\ Len(orders) < MaxOrders
        \* _render_checkout_page: the page, or a redirect to the cart when empty
        page(outcome, category, items) ==
            /\ session' = IF items = 0
                          THEN flash(flash(g.s, category), "warning")
                          ELSE Rendered(flash(g.s, category), TRUE)
            /\ resp' = IF items = 0
                       THEN Response(ep, "handler", "redirect", "customer.cart",
                                     TRUE, outcome)
                       ELSE Response(ep, "handler", "page", "customer/checkout.html",
                                     TRUE, outcome)
        untouched == calls' = {} /\ orders' = orders /\ cart' = cart
    IN  /\ asked' = CheckoutRequest(route, date)
        /\ disclosed' = {}
        /\ audit' = {}
        /\ UNCHANGED <<now, lifetime, loggedOut, stale, procVars, restVars>>
        /\ IF g.out # "pass" THEN Stopped(ep, g) /\ untouched
           ELSE IF route.kind = "bad" THEN page("error", "error", cart_items) /\ untouched
           ELSE IF route.val <= 0 THEN page("no_route", "error", cart_items) /\ untouched
           ELSE IF date.kind = "empty" \/ ~is_future_date(date, MIN_DELIVERY_DAYS, now)
           THEN page("bad_date", "error", cart_items) /\ untouched
           ELSE IF cart_items = 0
           THEN /\ session' = flash(g.s, "error")
                /\ resp' = Response(ep, "handler", "redirect", "customer.cart",
                                    TRUE, "empty_cart")
                /\ untouched
           ELSE /\ calls' = {CreateCall(customer_id, route.val, date.day, cart_items)}
                /\ orders' = IF made THEN sp_create_order_from_cart(customer_id)
                              ELSE orders
                /\ cart' = IF made THEN [cart EXCEPT ![customer_id] = 0] ELSE cart
                /\ IF made /\ proc = "done"
                   THEN /\ session' = flash(g.s, "success")
                        /\ resp' = Response(ep, "handler", "redirect",
                                            "customer.order_detail", TRUE, "placed")
                   ELSE page("failed", "error", IF made THEN 0 ELSE cart_items)

\* the sessions a login leaves, and the anonymous one
LoggedIn(u) ==
    create_user_session(EmptySession, u, Users[u],
                        _get_user_details(u, Users[u], TRUE), 0)

Accounts == {"cust1", "cust2", "sm1"}

OtherStatuses == {"pending", "delivered"}

InitOrders ==
    /\ session \in {LoggedIn(u) : u \in Accounts} \cup {EmptySession}
    /\ now = 0
    /\ lifetime = LIFETIME_CONFIG
    /\ resp = NoResponse
    /\ loggedOut = FALSE
    /\ stale = FALSE
    /\ \E s1 \in Statuses, s2 \in OtherStatuses :
          orders = <<[customer_id |-> 1, status |-> s1],
                     [customer_id |-> 2, status |-> s2]>>
    /\ cart \in [CustomerIds -> 0 .. MaxCart]
    /\ asked = NoRequest
    /\ disclosed = {}
    /\ calls = {}
    /\ audit = {}
    /\ ProcIdle
    /\ RestIdle

OrderIds == 1 .. MaxOrders

\* the checkout requests, one for all that differ only in what the handler
\* never gets to read: the date behind a refused route, the outcome of a
\* procedure that is not called
CheckoutForms ==
    {f \in [route : RouteFields, date : DateFields, cartOk : BOOLEAN,
            proc : CreateOutcomes] :
        /\ (f.route.kind = "bad" \/ f.route.val <= 0) => f.date.kind = "empty"
        /\ (\/ f.route.kind = "bad" \/ f.route.val <= 0
            \/ ~is_future_date(f.date, MIN_DELIVERY_DAYS, 0)
            \/ ~f.cartOk) => f.proc = "done"}

NextOrders ==
    \/ \E id \in OrderIds, dbOk \in BOOLEAN :
          track_order(id, dbOk)
    \/ \E id \in OrderIds, dbOk \in BOOLEAN : order_status(id, dbOk)
    \/ \E id \in OrderIds, dbOk \in BOOLEAN : api_get_order(id, dbOk)
    \/ \E pageOk \in BOOLEAN, status \in {"", "pending"}, dbOk \in BOOLEAN :
          api_get_orders(pageOk, status, dbOk)
    \/ \E id \in OrderIds, dbOk \in BOOLEAN :
          order_detail(id, dbOk)
    \/ \E id \in OrderIds, dbOk \in BOOLEAN, procOk \in BOOLEAN :
          cancel_order(id, dbOk, procOk)
    \/ \E f \in CheckoutForms : checkout(f.route, f.date, f.cartOk, f.proc)

SpecOrders == InitOrders /\ [][NextOrders]_vars

\* ------------------------------------------------------------ status updates
\* an order id as the form carries it: decimal digits, a signed or padded
\* number (int() takes it, str.isdigit() does not), a digit character int()
\* refuses (isdigit() takes it), or no number at all
IdFields == {[kind |-> "digits", val |-> v] : v \in 0 .. MaxOrders} \cup
            {[kind |-> "signed", val |-> v] : v \in {-1, 1}} \cup
            {[kind |-> "superscript", val |-> 0], [kind |-> "bad", val |-> 0]}

\* the new_status field: empty, a status of ORDER_STATUS_FLOW, anything else
StatusFields == {"", "bogus", "pending", "delivered"}

\* what sp_update_order_status does to the table when called from a manager
\* route: the row of an existing order takes a known status, or the call raises
Updated(ord, order_id, new_status, procOk) ==
    IF procOk /\ order_id \in DOMAIN ord /\ new_status \in Statuses
    THEN [ord EXCEPT ![order_id].status = new_status]
    ELSE ord

\* the refusal with statuses outside ORDER_STATUS_FLOW refused as well
InvalidUpdate_unknown_status(order_id, new_status) ==
    order_id <= 0 \/ new_status \notin Statuses

\* if order_id <= 0 or not new_status
InvalidUpdate(order_id, new_status) == order_id <= 0 \/ new_status = ""

UpdateRequest(ids, new_status) ==
    [kind |-> "update", ids |-> ids, new_status |-> new_status]

\* update_order_status: POST /manager/update-order-status, manager_required,
\* audit_log
update_order_status(field, new_status, procOk) ==
    LET ep == "manager.update_order_status"
        g == Gate(ep, "manager_required", session, now, lifetime)
        order_id == field.val
        after == Updated(orders, order_id, new_status, procOk)
        raised == ~(procOk /\ order_id \in DOMAIN orders /\ new_status \in Statuses)
        answer(outcome, category) ==
            /\ session' = flash(g.s, category)
            /\ resp' = Response(ep, "handler", "redirect", "manager.orders_management",
                                TRUE, outcome)
    IN  /\ asked' = UpdateRequest(<<field>>, new_status)
        /\ disclosed' = {}
        /\ UNCHANGED <<cart, now, lifetime, loggedOut, stale, procVars, restVars>>
        /\ IF g.out # "pass"
           THEN Stopped(ep, g) /\ calls' = {} /\ audit' = {} /\ orders' = orders
           ELSE /\ audit' = {AuditRow(g.s, "UPDATE_ORDER_STATUS")}
                /\ IF field.kind \in {"bad", "superscript"}
                   THEN answer("error", "error") /\ calls' = {} /\ orders' = orders
                   ELSE IF InvalidUpdate(order_id, new_status)
                   THEN answer("invalid", "error") /\ calls' = {} /\ orders' = orders
                   ELSE /\ calls' = {UpdateCall(order_id, new_status, g.s["user_name"])}
                        /\ orders' = after
                        /\ IF raised THEN answer("error", "error")
                           ELSE answer("updated", "success")

\* [int(oid) for oid in order_ids if oid.isdigit()]
DigitIds(fields) ==
    LET kept == SelectSeq(fields, LAMBDA f : f.kind \in {"digits", "superscript"})
    IN  [i \in 1 .. Len(kept) |-> kept[i].val]

RECURSIVE BulkLoop(_, _, _, _, _, _)
\* the loop of bulk_update_orders from position i on: one call per id, an
\* exception of one call does not stop the next
BulkLoop(ids, new_status, user_name, oks, i, acc) ==
    IF i > Len(ids) THEN acc
    ELSE LET id == ids[i]
             call == [proc |-> "sp_update_order_status", order_id |-> id,
                      new_status |-> new_status, user_name |-> user_name,
                      was |-> IF id \in DOMAIN acc.orders THEN acc.orders[id].status
                              ELSE None,
                      owner |-> IF id \in DOMAIN acc.orders
                                THEN acc.orders[id].customer_id ELSE NoId]
         IN  BulkLoop(ids, new_status, user_name, oks, i + 1,
                      [orders |-> Updated(acc.orders, id, new_status, oks[i]),
                       calls |-> acc.calls \cup {call}])

\* bulk_update_orders: POST /orders/bulk-update, manager_required, audit_log
bulk_update_orders(fields, new_status, oks) ==
    LET ep == "orders.bulk_update_orders"
        g == Gate(ep, "manager_required", session, now, lifetime)
        order_ids == DigitIds(fields)
        done == BulkLoop(order_ids, new_status, g.s["user_name"], oks, 1,
                         [orders |-> orders, calls |-> {}])
        answer(outcome, category) ==
            /\ session' = flash(g.s, category)
            /\ resp' = Response(ep, "handler", "redirect", "manager.orders_management",
                                TRUE, outcome)
    IN  /\ asked' = UpdateRequest(fields, new_status)
        /\ disclosed' = {}
        /\ UNCHANGED <<cart, now, lifetime, loggedOut, stale, procVars, restVars>>
        /\ IF g.out # "pass"
           THEN Stopped(ep, g) /\ calls' = {} /\ audit' = {} /\ orders' = orders
           ELSE /\ audit' = {AuditRow(g.s, "BULK_UPDATE_ORDERS")}
                /\ IF fields = <<>> \/ new_status = ""
                   THEN answer("nothing_selected", "error") /\ calls' = {}
                        /\ orders' = orders
                   ELSE IF \E i \in 1 .. Len(fields) : fields[i].kind = "superscript"
                   THEN answer("invalid_ids", "error") /\ calls' = {} /\ orders' = orders
                   ELSE IF order_ids = <<>>
                   THEN answer("no_valid", "error") /\ calls' = {} /\ orders' = orders
                   ELSE /\ calls' = done.calls
                        /\ orders' = done.orders
                        /\ answer("updated", "success")

Managers == {"sm1", "mm1"}

InitManage ==
    /\ session \in {LoggedIn(u) : u \in Managers \cup {"cust1"}} \cup {EmptySession}
    /\ now = 0
    /\ lifetime = LIFETIME_CONFIG
    /\ resp = NoResponse
    /\ loggedOut = FALSE
    /\ stale = FALSE
    /\ \E s1 \in Statuses :
          orders = <<[customer_id |-> 1, status |-> s1],
                     [customer_id |-> 2, status |-> "pending"]>>
    /\ cart = [c \in CustomerIds |-> 0]
    /\ asked = NoRequest
    /\ disclosed = {}
    /\ calls = {}
    /\ audit = {}
    /\ ProcIdle
    /\ RestIdle

Digits(v) == [kind |-> "digits", val |-> v]

\* the order_ids lists of a bulk update: none, one, two, one twice, ids that
\* isdigit() drops, an id of no order, ids int() refuses
IdLists ==
    {<<>>, <<Digits(1)>>, <<Digits(2), Digits(1)>>, <<Digits(1), Digits(1)>>,
     <<[kind |-> "signed", val |-> 1], Digits(2)>>,
     <<Digits(0), Digits(MaxOrders)>>,
     <<[kind |-> "signed", val |-> -1], [kind |-> "bad", val |-> 0]>>,
     <<[kind |-> "superscript", val |-> 0], Digits(1)>>}

NextManage ==
    \/ \E field \in IdFields, new_status \in StatusFields, procOk \in BOOLEAN :
          update_order_status(field, new_status, procOk)
    \/ \E fields \in IdLists, new_status \in StatusFields,
          oks \in [1 .. 2 -> BOOLEAN] :
          bulk_update_orders(fields, new_status, oks)

SpecManage == InitManage /\ [][NextManage]_vars

\* ------------------------------------------------------------ status flow
MaxWalk == 9
MaxWalkers == 2

\* an order moves to one of the statuses ORDER_STATUS_FLOW lists for its own
Follow(o, next) ==
    /\ Len(walked[o]) - 1 < MaxWalk
    /\ next \in ORDER_STATUS_FLOW[walked[o][Len(walked[o])]]
    /\ walked' = [walked EXCEPT ![o] = Append(@, next)]
    /\ UNCHANGED <<authVars, orderVars, procVars, pooled, held, dead, lost>>

InitFlow ==
    /\ session = EmptySession
    /\ now = 0
    /\ lifetime = LIFETIME_CONFIG
    /\ resp = NoResponse
    /\ loggedOut = FALSE
    /\ stale = FALSE
    /\ OrdersIdle
    /\ ProcIdle
    /\ walked = [o \in 1 .. MaxWalkers |-> <<"pending">>]
    /\ pooled = POOL_SIZE
    /\ held = 0
    /\ dead = 0
    /\ lost = 0

NextFlow == \E o \in 1 .. MaxWalkers, next \in Statuses : Follow(o, next)

SpecFlow == InitFlow /\ [][NextFlow]_vars

\* ------------------------------------------------------------ stores on g
MaxClock == 450
ClockSteps == {150, 300}
MaxReached == 11

RemoteAddrs == {"ip1", "ip2"}

\* the seconds pass
Advance(d) ==
    /\ clock + d <= MaxClock
    /\ clock' = clock + d
    /\ reached' = [k \in DOMAIN reached |-> KeepAfter(reached[k], clock' - LOGIN_PER_SECONDS)]
    /\ UNCHANGED <<authVars, orderVars, restVars, rate_limit_store, cache_store, remembered, last>>

\* POST /auth/login with a wrong password, from remote_addr: the rate_limit
\* wrapper, then the body, which refuses the credentials
login_attempt(remote_addr) ==
    LET key == _get_rate_limit_key(session, remote_addr)
        r == _is_rate_limited(StoreOfRequest(rate_limit_store), key, clock,
                              LOGIN_MAX_REQUESTS, LOGIN_PER_SECONDS)
        before == IF key \in DOMAIN reached THEN reached[key] ELSE <<>>
    IN  /\ Len(before) < MaxReached
        /\ rate_limit_store' = r.store
        /\ IF r.limited
           THEN /\ Limited("auth.login")
                /\ reached' = reached
           ELSE /\ session' = Rendered(flash(session, "error"), TRUE)
                /\ resp' = Response("auth.login", "handler", "page", "auth/login.html",
                                    TRUE, "invalid")
                /\ reached' = [k \in (DOMAIN reached) \cup {key} |->
                                  IF k = key THEN Append(before, clock) ELSE reached[k]]
        /\ UNCHANGED <<now, lifetime, loggedOut, stale, orderVars, restVars, clock, cache_store,
                       remembered, last>>

InitRate ==
    /\ session = EmptySession
    /\ now = 0
    /\ lifetime = LIFETIME_CONFIG
    /\ resp = NoResponse
    /\ loggedOut = FALSE
    /\ stale = FALSE
    /\ OrdersIdle
    /\ ProcIdle
    /\ RestIdle

NextRate ==
    \/ \E d \in ClockSteps : Advance(d)
    \/ \E remote_addr \in RemoteAddrs : login_attempt(remote_addr)

SpecRate == InitRate /\ [][NextRate]_vars

\* ------------------------------------------------------------ cache_response
CACHE_TIMEOUT == 300

\* what the wrapped function may return
Results == {None, "r1", "r2"}

ArgLists == {<<>>, <<"a">>}

\* _generate_cache_key: the parts joined with ':' and hashed with md5, which
\* is taken to keep different strings apart
_generate_cache_key(func_name, args, kwargs, prefix) ==
    (IF prefix = None THEN <<>> ELSE <<prefix>>) \o <<func_name>> \o args \o kwargs

\* _get_from_cache: the value of a live entry; an entry that ran out is deleted
_get_from_cache(store, key, t) ==
    IF key \in DOMAIN store
    THEN IF t < store[key].expires
         THEN [value |-> store[key].value, store |-> store]
         ELSE [value |-> None,
               store |-> [k \in (DOMAIN store) \ {key} |-> store[k]]]
    ELSE [value |-> None, store |-> store]

\* _set_cache
_set_cache(store, key, value, timeout, t) ==
    [k \in (DOMAIN store) \cup {key} |->
        IF k = key THEN [value |-> value, expires |-> t + timeout] ELSE store[k]]

\* a new request arrives: a new application context, hence a new g
new_request ==
    /\ cache_store # NewStore \/ rate_limit_store # NewStore
    /\ cache_store' = NewStore
    /\ rate_limit_store' = NewStore
    /\ UNCHANGED <<authVars, orderVars, restVars, clock, reached, remembered, last>>

\* a call, inside the request being served, of a function wrapped in
\* cache_response(timeout=300); result is what the function would return
cached_call(args, result) ==
    LET key == _generate_cache_key("f", args, <<>>, None)
        got == _get_from_cache(cache_store, key, clock)
        expected == IF key \in DOMAIN remembered THEN remembered[key] ELSE NoEntry
    IN  /\ IF got.value # None
           THEN /\ cache_store' = got.store
                /\ last' = [key |-> key, at |-> clock, executed |-> FALSE,
                            returned |-> got.value, expected |-> expected]
                /\ remembered' = remembered
           ELSE /\ cache_store' = _set_cache(got.store, key, result, CACHE_TIMEOUT, clock)
                /\ last' = [key |-> key, at |-> clock, executed |-> TRUE,
                            returned |-> result, expected |-> expected]
                /\ remembered' =
                      IF result # None
                      THEN _set_cache(remembered, key, result, CACHE_TIMEOUT, clock)
                      ELSE [k \in (DOMAIN remembered) \ {key} |-> remembered[k]]
        /\ UNCHANGED <<authVars, orderVars, restVars, clock, rate_limit_store, reached>>

\* the seconds pass while the cache is in use
CacheAdvance(d) ==
    /\ clock + d <= MaxClock
    /\ clock' = clock + d
    /\ UNCHANGED <<authVars, orderVars, restVars, rate_limit_store, reached, cache_store,
                   remembered, last>>

NextCache ==
    \/ \E d \in ClockSteps : CacheAdvance(d)
    \/ new_request
    \/ \E args \in ArgLists, result \in Results : cached_call(args, result)

SpecCache == InitRate /\ [][NextCache]_vars

\* ------------------------------------------------------------ connection pool
\* how a with-block over get_connection ends
BlockEnds == {"normal", "Error", "other"}

\* get_connection up to the yield: pool.get_connection() hands out a pooled
\* connection; with none left it raises PoolError, an Error, and the block
\* never starts
enter ==
    /\ pooled' = IF pooled > 0 THEN pooled - 1 ELSE pooled
    /\ held' = IF pooled > 0 THEN held + 1 ELSE held
    /\ UNCHANGED <<authVars, orderVars, procVars, walked, dead, lost>>

\* the server or the network drops a connection while a with-block holds it
drop ==
    /\ held > 0
    /\ held' = held - 1
    /\ dead' = dead + 1
    /\ UNCHANGED <<authVars, orderVars, procVars, walked, pooled, lost>>

\* get_connection from the yield on: an Error is rolled back and raised
\* again; in every case the finally clause closes the connection, which puts
\* it back into the pool, if it is_connected(), and otherwise lets go of it
leave(how, connected) ==
    /\ IF connected
       THEN /\ held > 0
            /\ held' = held - 1
            /\ pooled' = pooled + 1
            /\ UNCHANGED <<dead, lost>>
       ELSE /\ dead > 0
            /\ dead' = dead - 1
            /\ lost' = lost + 1
            /\ UNCHANGED <<held, pooled>>
    /\ UNCHANGED <<authVars, orderVars, procVars, walked>>

NextPool ==
    \/ enter
    \/ drop
    \/ \E how \in BlockEnds, connected \in BOOLEAN : leave(how, connected)

SpecPool == InitRate /\ [][NextPool]_vars

\* ------------------------------------------------------------ specification
\* the requests a client can send to login: inputs a branch never reads are
\* kept at one value
LoginForms ==
    {f \in [raw : RawNames, pw : BOOLEAN, ps : ProcStatuses, dbOk : BOOLEAN] :
        /\ (f.raw.text = "" \/ ~f.pw) => (f.ps = "Failure")
        /\ (f.ps # "Success" \/ f.raw.text \notin DOMAIN Users) => f.dbOk}

ApiLoginBodies(body) ==
    IF body = "ok"
    THEN {f \in [raw : RawNames, ps : ProcStatuses, dbOk : BOOLEAN] :
            (f.ps # "Success" \/ f.raw.text \notin DOMAIN Users) => f.dbOk}
    ELSE {[raw |-> [text |-> "", wrapped |-> FALSE], ps |-> "Failure", dbOk |-> TRUE]}

Init ==
    /\ session = EmptySession
    /\ now = 0
    /\ lifetime \in ConfigLifetimes
    /\ resp = NoResponse
    /\ loggedOut = FALSE
    /\ stale = FALSE
    /\ OrdersIdle
    /\ ProcIdle
    /\ RestIdle

Next ==
    \/ \E d \in TickSteps : Tick(d)
    \/ \E ep \in DOMAIN Routes, shown \in BOOLEAN : Request(ep, shown)
    \/ \E shown \in BOOLEAN : index(shown)
    \/ \E shown \in BOOLEAN : login_get(shown)
    \/ \E f \in LoginForms, shown \in BOOLEAN :
          login(f.raw, f.pw, f.ps, f.dbOk, shown)
    \/ \E body \in JsonBodies : \E f \in ApiLoginBodies(body) :
          api_login(body, f.raw, f.ps, f.dbOk)
    \/ logout
    \/ api_logout
    \/ api_session
    \/ check_session
    \/ extend_session


Spec == Init /\ [][Next]_vars

\* ------------------------------------------------------------ claims
\* a step that serves a request (the clock stands still while it is served)
Served == now' = now

RoleRoutes == {ep \in DOMAIN Routes : Routes[ep] # "login_required"}

\* the roles each role decorator is documented to admit
AllowedRoles ==
    [customer_required |-> {"customer"},
     manager_required |-> {"store_manager", "main_manager"},
     store_manager_required |-> {"store_manager"},
     main_manager_required |-> {"main_manager"}]

Admitted(s, t, dec) ==
    /\ Has(s, "user_name")
    /\ _is_session_valid(s, t, lifetime)
    /\ Get(s, "user_role") \in AllowedRoles[dec]

\* the decorator itself, on the session and the time of every reachable state
C1_Decorator ==
    \A ep \in RoleRoutes :
        LET d == Decorate(Routes[ep], session, now, lifetime, ep)
        IN  /\ (d.out = "pass") <=> Admitted(session, now, Routes[ep])
            /\ ~Admitted(session, now, Routes[ep]) =>
                  d.out = IF Has(session, "user_name")
                             /\ _is_session_valid(session, now, lifetime)
                          THEN "index" ELSE "auth.login"

\* the request as a whole: the body ran exactly when the session it worked on
\* is logged in, valid and of an allowed role; otherwise a redirect
C1_Request ==
    (Served /\ resp'.ep \in RoleRoutes) =>
        /\ resp'.ran <=> Admitted(session', now, Routes[resp'.ep])
        /\ ~resp'.ran =>
              /\ resp'.kind = "redirect"
              /\ resp'.target = IF Has(session', "user_name") THEN "index"
                                ELSE "auth.login"
        /\ ~Has(session, "user_name") => (~resp'.ran /\ resp'.target = "auth.login")
        /\ (Has(session, "user_name")
            /\ Get(session, "user_role") \notin AllowedRoles[Routes[resp'.ep]])
              => ~resp'.ran

\* C1: a route wrapped by customer_required, manager_required,
\* store_manager_required or main_manager_required runs its body only when the
\* session has user_name, passes the validity check and has a role of the
\* decorator's allowed set; in every other case the body does not run and the
\* response is a redirect, to auth.login when not logged in or expired, to
\* index when the role is not allowed.
C1_RoleDecorators == [](C1_Decorator) /\ [][C1_Request]_vars

\* a store manager asked for the main manager's dashboard and was sent to index
C1_Witness ==
    /\ resp.ep = "manager.main_dashboard"
    /\ resp.by = "role_required"
    /\ resp.target = "index"
    /\ ~resp.ran
    /\ Get(session, "user_role") = "store_manager"

ClaimKeys == {"user_name", "user_role", "customer_id", "store_name", "manager_id"}

Part(s, keys) == [k \in (DOMAIN s) \cap keys |-> s[k]]

\* the user exists and the table of its role has its record
HasAccount(u) ==
    /\ u \in DOMAIN Users
    /\ \/ Users[u] = "customer" /\ u \in DOMAIN Customers
       \/ Users[u] = "store_manager" /\ u \in DOMAIN StoreManagers
       \/ Users[u] = "main_manager" /\ u \in DOMAIN MainManagers

LoginEndpoints == {"auth.login", "auth.api_login"}

C2_Step ==
    (Served /\ resp'.ep \in LoginEndpoints) =>
        IF resp'.outcome = "logged_in"
        THEN /\ Has(session', "user_name")
             /\ HasAccount(session'["user_name"])
             /\ session'["user_role"] = Users[session'["user_name"]]
        ELSE Part(session', ClaimKeys) = Part(session, ClaimKeys)

\* C2: a POST to login or api_login puts user_name into the session only if
\* User.authenticate returned a user and _get_user_details returned a record;
\* in every other outcome (missing name or password, failed authentication,
\* details not found, exception) user_name, user_role, customer_id, store_name
\* and manager_id of the session are exactly what they were before.
C2_LoginOnlyOnSuccess == [][C2_Step]_vars

\* a failed login attempt made while another user is logged in
C2_Witness ==
    /\ resp.ep = "auth.login"
    /\ resp.outcome = "no_details"
    /\ Get(session, "user_name") = "sm1"

LogoutEndpoints == {"auth.logout", "auth.api_logout"}

NoProtectedBodySinceLogout ==
    (loggedOut /\ resp.ep \in DOMAIN Routes) => ~resp.ran

\* C3 as stated: after logout or api_logout the session holds no key at all,
\* and until a later successful login no protected handler runs its body.
C3_Original ==
    /\ resp.ep \in LogoutEndpoints => DOMAIN session = {}
    /\ NoProtectedBodySinceLogout

\* C3: after logout or api_logout the session holds none of the keys a login or
\* a request wrote (after api_logout no key at all, after logout of a logged-in
\* user only the flashed goodbye message); from then on, until a later
\* successful login, no user is in the session and no protected handler runs
\* its body.
C3_LogoutClears ==
    /\ resp.ep \in LogoutEndpoints => DOMAIN session \subseteq {"_flashes"}
    /\ resp.ep = "auth.api_logout" => DOMAIN session = {}
    /\ loggedOut => ~Has(session, "user_name")
    /\ NoProtectedBodySinceLogout

\* after a logout a protected page was asked for and refused
C3_Witness ==
    /\ loggedOut
    /\ resp.ep = "profile"
    /\ resp.by = "login_required"
    /\ ~resp.ran

CheckedEndpoint(ep) == ep \notin PublicEndpoints \cup AuthEndpoints \cup {"none"}

C5_Step ==
    (Served /\ CheckedEndpoint(resp'.ep)) =>
        IF /\ Has(session, "user_name")
           /\ Has(session, "last_activity")
           /\ now - session["last_activity"] > 16
        THEN /\ DOMAIN session' \subseteq {"_flashes"}
             /\ resp'.kind = "redirect"
             /\ resp'.target = "auth.login"
             /\ ~resp'.ran
        ELSE Has(session, "user_name") =>
                /\ Has(session', "last_activity")
                /\ session'["last_activity"] = now

\* C5: for a request to an endpoint other than static, health_check, about,
\* contact, index and auth.*: a session with user_name whose last_activity is
\* more than 8 hours old is cleared, the answer is a redirect to auth.login and
\* the handler does not run; otherwise a session with user_name gets
\* last_activity set to the current time before the handler runs.
C5_BeforeRequest == [][C5_Step]_vars

\* a request arrived more than eight hours after the last one and was stopped
C5_Witness ==
    /\ resp.by = "before_request"
    /\ resp.target = "auth.login"
    /\ ~Has(session, "user_name")

\* C6 as stated: a login_required route clears the session and redirects to
\* auth.login, without running the handler, whenever the session was idle for
\* longer than the configured PERMANENT_SESSION_LIFETIME.
C6_Step ==
    (/\ Served
     /\ resp'.ep \in DOMAIN Routes
     /\ Has(session, "user_name")
     /\ Has(session, "last_activity")
     /\ now - session["last_activity"] > lifetime) =>
        /\ ~resp'.ran
        /\ resp'.target = "auth.login"
        /\ ~Has(session', "user_name")

C6_ConfiguredLifetime == [][C6_Step]_vars

\* ------------------------------------------------------------ claims on orders
OrderEndpoints == {"orders.track_order", "orders.order_status", "orders.cancel_order",
                   "orders.api_get_order", "customer.order_detail"}

\* the last request was answered by the body of one of the five order routes,
\* for a customer
CustomerAsked ==
    /\ resp.ep \in OrderEndpoints
    /\ resp.ran
    /\ is_customer(session)

\* the order it named exists and belongs to somebody else
AnothersOrder ==
    /\ asked.order_id \in DOMAIN orders
    /\ orders[asked.order_id].customer_id # session["customer_id"]

\* what the five routes show and change is the customer's own
OwnOnly ==
    /\ \A r \in disclosed : r.customer_id = session["customer_id"]
    /\ \A c \in calls : c.owner = session["customer_id"]

\* C4 as stated: with a customer session the five order routes return or
\* modify only the customer's own orders, and for another customer's order
\* they answer 'Order not found' and never call sp_update_order_status.
C4_Original ==
    CustomerAsked =>
        /\ OwnOnly
        /\ AnothersOrder => (resp.outcome = "not_found" /\ calls = {})

\* C4, amended: with a customer session the five order routes return or modify
\* only the customer's own orders; for another customer's order they never call
\* sp_update_order_status, show nothing, and answer 'Order not found', or
\* the handler's own error answer when the lookup query raised.
C4_OwnOrdersOnly ==
    CustomerAsked =>
        /\ OwnOnly
        /\ AnothersOrder =>
              /\ resp.outcome \in {"not_found", "error"}
              /\ calls = {}
              /\ disclosed = {}

\* a customer asked to cancel another customer's order that could still be
\* cancelled, and was told 'Order not found'
C4_Witness ==
    /\ CustomerAsked
    /\ resp.ep = "orders.cancel_order"
    /\ AnothersOrder
    /\ orders[asked.order_id].status = "pending"
    /\ resp.outcome = "not_found"
    /\ calls = {}

CheckoutAnswered == resp.ep = "customer.checkout" /\ resp.ran

CheckoutRejections == {"error", "no_route", "bad_date", "empty_cart"}

\* C9: a checkout POST calls sp_create_order_from_cart only when route_id > 0,
\* the delivery date parses and is at least seven days after today, a date
\* exactly seven days ahead being accepted, and the cart has items; a rejected
\* checkout calls no procedure and leaves orders and cart as they were.
C9_Calls ==
    /\ \A c \in calls :
          c.proc = "sp_create_order_from_cart" =>
              /\ CheckoutAnswered
              /\ asked.route.kind = "int" /\ asked.route.val > 0
              /\ c.route_id = asked.route.val
              /\ asked.date.kind = "date"
              /\ asked.date.day >= today(now) + 7
              /\ c.day = asked.date.day
              /\ c.items > 0
              /\ c.customer_id = session["customer_id"]
    /\ (CheckoutAnswered /\ resp.outcome \in CheckoutRejections) => calls = {}
    /\ (/\ CheckoutAnswered
        /\ asked.route.kind = "int" /\ asked.route.val > 0
        /\ asked.date.kind = "date" /\ asked.date.day = today(now) + 7)
       => resp.outcome \in {"empty_cart", "placed", "failed"}

C9_Step ==
    (resp'.ep = "customer.checkout" /\ calls' = {}) =>
        (orders' = orders /\ cart' = cart)

C9_CheckoutGuards == [](C9_Calls) /\ [][C9_Step]_vars

\* an order was placed for a date exactly seven days ahead
C9_Witness ==
    /\ CheckoutAnswered
    /\ resp.outcome = "placed"
    /\ asked.date.day = today(now) + 7
    /\ \E c \in calls : c.proc = "sp_create_order_from_cart"

CancelAnswered == resp.ep = "orders.cancel_order"

\* C10: cancel_order calls sp_update_order_status(order_id, 'cancelled', user)
\* only when the order exists, the caller may see it and its status is none of
\* delivered, cancelled, returned; otherwise it calls no procedure and the
\* order stays as it was.
C10_Calls ==
    CancelAnswered =>
        \A c \in calls :
            /\ resp.ran
            /\ c.proc = "sp_update_order_status"
            /\ c.order_id = asked.order_id
            /\ c.order_id \in DOMAIN orders
            /\ c.new_status = "cancelled"
            /\ c.user_name = session["user_name"]
            /\ c.was \notin {"delivered", "cancelled", "returned"}
            /\ is_customer(session) => c.owner = session["customer_id"]

C10_Step ==
    resp'.ep = "orders.cancel_order" =>
        /\ calls' = {} => orders' = orders
        /\ \A id \in DOMAIN orders :
              orders'[id] # orders[id] =>
                  /\ id = asked'.order_id
                  /\ orders[id].status \notin {"delivered", "cancelled", "returned"}

C10_CancelOrder == [](C10_Calls) /\ [][C10_Step]_vars

\* a pending order was cancelled through the procedure
C10_Witness ==
    /\ CancelAnswered
    /\ resp.outcome = "cancelled"
    /\ \E c \in calls : c.was = "pending" /\ c.new_status = "cancelled"
    /\ orders[asked.order_id].status = "cancelled"

\* ------------------------------------------------------------ claims on g
\* C7: of the requests one key sends to a route wrapped in rate_limit(N, T), at
\* most N within any window of T seconds reach the handler; for login that
\* is 10 within 300 seconds.
C7_RateLimit ==
    \A k \in DOMAIN reached :
        Len(KeepAfter(reached[k], clock - LOGIN_PER_SECONDS)) <= LOGIN_MAX_REQUESTS

\* C8: a call with the same function name, arguments and prefix made before
\* the timeout of a stored non-None result has run out returns that result
\* and does not execute the function, in whichever request of the process the
\* result was stored.
C8_CacheAcrossRequests ==
    (last.expected.value # None /\ last.at < last.expected.expires) =>
        (~last.executed /\ last.returned = last.expected.value)

\* ------------------------------------------------------------ claims on status
UpdateAnswered == resp.ran /\ resp.ep = "manager.update_order_status"

BulkAnswered == resp.ran /\ resp.ep = "orders.bulk_update_orders"

PassedOn(order_id, new_status) ==
    \E c \in calls : /\ c.proc = "sp_update_order_status"
                     /\ c.order_id = order_id
                     /\ c.new_status = new_status
                     /\ c.user_name = session["user_name"]

\* C11: no route compares the requested change with ORDER_STATUS_FLOW:
\* update_order_status and bulk_update_orders hand every non-empty new_status,
\* for every order id > 0 they read from the form and whatever the status of
\* the order is, to sp_update_order_status.
C11_NoFlowCheck ==
    /\ (/\ UpdateAnswered
        /\ asked.ids[1].kind \in {"digits", "signed"}
        /\ asked.ids[1].val > 0
        /\ asked.new_status # "")
       => PassedOn(asked.ids[1].val, asked.new_status)
    /\ (/\ BulkAnswered
        /\ asked.new_status # ""
        /\ \A i \in 1 .. Len(asked.ids) : asked.ids[i].kind # "superscript")
       => \A i \in 1 .. Len(asked.ids) :
             (asked.ids[i].kind = "digits" /\ asked.ids[i].val > 0)
                 => PassedOn(asked.ids[i].val, asked.new_status)

\* a delivered order was handed on for 'pending', which ORDER_STATUS_FLOW does
\* not allow, and the table took it
C11_Witness ==
    /\ UpdateAnswered
    /\ \E c \in calls : /\ c.was = "delivered"
                        /\ c.new_status = "pending"
                        /\ c.new_status \notin ORDER_STATUS_FLOW[c.was]
                        /\ orders[c.order_id].status = "pending"

\* ------------------------------------------------------------ claims on the flow
RECURSIVE ReachFrom(_)
\* the statuses some path of ORDER_STATUS_FLOW reaches from the given ones
ReachFrom(set) ==
    LET next == set \cup UNION {ORDER_STATUS_FLOW[st] : st \in set}
    IN  IF next = set THEN set ELSE ReachFrom(next)

\* C12: in ORDER_STATUS_FLOW delivered, cancelled and returned have no
\* successor, each of the ten statuses is reachable from pending, no path
\* comes back to a status it left, and every path from pending that cannot go
\* on has ended in delivered, cancelled or returned after at most 7 transitions.
C12_StatusFlow ==
    /\ \A t \in {"delivered", "cancelled", "returned"} : ORDER_STATUS_FLOW[t] = {}
    /\ Cardinality(Statuses) = 10
    /\ ReachFrom({"pending"}) = Statuses
    /\ \A o \in DOMAIN walked :
          LET w == walked[o]
          IN  /\ \A i, j \in 1 .. Len(w) : i < j => w[i] # w[j]
              /\ Len(w) - 1 <= 7
              /\ ORDER_STATUS_FLOW[w[Len(w)]] = {}
                    => w[Len(w)] \in {"delivered", "cancelled", "returned"}

\* an order went the whole way from pending to delivered, in 7 transitions
C12_Witness ==
    \E o \in DOMAIN walked :
        /\ Len(walked[o]) - 1 = 7
        /\ walked[o][1] = "pending"
        /\ walked[o][Len(walked[o])] = "delivered"

\* ------------------------------------------------------------ claims on api_response
ApiEndpoints == {"orders.api_get_order", "orders.api_get_orders"}

\* C13: every response of an endpoint wrapped in api_response has the standard
\* format: a dict result comes back as {success: true, data, timestamp}, and
\* every failure, 'Order not found' or 'Error retrieving orders' included, as
\* {success: false, error, timestamp} with an error status code.
C13_StandardFormat ==
    (resp.ran /\ resp.ep \in ApiEndpoints) =>
        /\ resp.outcome = "shown" => (resp.kind = "api_success" /\ resp.target = "200")
        /\ resp.outcome \in {"not_found", "error"} =>
              (resp.kind = "api_error" /\ resp.target \in {"404", "500"})

\* ------------------------------------------------------------ claims on expiry
\* C14: once the last_activity of a session is more than 8 hours in the past,
\* no request of that session runs a login_required handler until a new
\* successful login, whatever requests to check-session, extend-session or
\* api/session come in between.
C14_Step ==
    (Served /\ resp'.ep \in DOMAIN Routes /\ resp'.ran) => ~stale

C14_ExpiredStaysExpired == [][C14_Step]_vars

\* ------------------------------------------------------------ claims on the pool
\* C15: every connection get_connection takes from the pool is back in the
\* pool when the with-block has ended, however it ended and whatever state
\* the connection was in; with no block running all 10 connections are in the
\* pool.
C15_PoolReturn ==
    /\ pooled + held + dead = POOL_SIZE
    /\ (held + dead = 0) => pooled = 10

====
